---- MODULE Spec2Model ----
(***************************************************************************)
(* Model of paymentService: the gRPC transport adapter                     *)
(* (internal/grpc/payment/server.go) and the subscription orchestrator     *)
(* (internal/services/payment/payment.go) working against the payment      *)
(* processor.  One RPC invocation is in flight at a time; every processor  *)
(* call is one step whose answer (result or error) the processor chooses.  *)
(***************************************************************************)
EXTENDS Integers, Sequences, FiniteSets, TLC

VARIABLES
    customers,   \* processor: set of customer records [id, user_id, created]
    attached,    \* processor: set of <<customer id, payment method>> attachments
    defaults,    \* processor: set of <<customer id, payment method>> invoice defaults
    subs,        \* processor: subscription id -> [status, price, items, created]
    inv,         \* the invocation in flight: arguments, position, locals, result
    lastCancel,  \* history: the last finished CancelSubscription [called, subID, status]
    logWorks,    \* environment: writes to the log output succeed
    firstRun,    \* history: the first of two runs that are compared
    stripeKey,   \* process: the processor credential (the global stripe.Key)
    logger,      \* process: the fields of the one jsonlog.Logger
    handlers,    \* process: the position of each concurrent RPC handler
    files,       \* file system: the log files opened so far
    output       \* file system: what has been written to the log output

\* the state of the process that concurrent handlers run in
processVars == <<stripeKey, logger, handlers, files, output>>

vars == <<customers, attached, defaults, subs, inv, lastCancel, logWorks,
          firstRun, processVars>>

(* ------------------------------ bounds -------------------------------- *)

\* customers the processor will create before customer.New only fails
MaxCustomers == 1
\* subscriptions the processor will create before subscription.New only fails
MaxSubs == 1
\* entries each handler logs
MaxPrints == 1

(* ------------------------- values and inputs -------------------------- *)

\* payment.Status values; the first five are the members the orchestrator uses,
\* STATUS_UNSPECIFIED is the enum's zero value and STATUS_7 an out-of-range one
STATUS_OK == "STATUS_OK"
STATUS_INVALID_USER == "STATUS_INVALID_USER"
STATUS_INVALID_PLAN == "STATUS_INVALID_PLAN"
STATUS_INVALID_PAYMENT_METHOD == "STATUS_INVALID_PAYMENT_METHOD"
STATUS_INTERNAL_ERROR == "STATUS_INTERNAL_ERROR"
Outcomes ==
    {STATUS_OK, STATUS_INVALID_USER, STATUS_INVALID_PLAN,
     STATUS_INVALID_PAYMENT_METHOD, STATUS_INTERNAL_ERROR}
StatusValues == Outcomes \cup {"STATUS_UNSPECIFIED", "STATUS_7"}

\* stripe.SubscriptionStatus values, and one string the library does not know
StripeStatuses ==
    {"active", "canceled", "incomplete", "incomplete_expired", "past_due",
     "paused", "trialing", "unpaid", "future_status"}

\* the call context's value under contextkeys.UserIDKey
NoValue == [kind |-> "nil", val |-> 0]
Contexts ==
    {NoValue, [kind |-> "int64", val |-> 7], [kind |-> "string", val |-> 7],
     [kind |-> "int", val |-> 7]}

PlanIDs == {-1, 0, 1, 2, 99}
PaymentMethods == {"", "pm_test", "pm_bad"}
\* payment methods the processor knows; attaching any other one is refused
KnownPaymentMethods == {"pm_test"}
\* subscription identifiers a caller may send
SubIDArgs == {"", "42", "sub_1", "sub_2", "sub_missing"}
\* values of time.Now(): 2025-01-15 00:00:00 UTC and 2025-01-31 12:00:00 UTC
ClockValues == {1736899200, 1738324800}

\* webhook event types: the five the dispatcher names and one it does not
RecognizedEvents ==
    {"payment_intent.succeeded", "payment_intent.payment_failed",
     "customer.subscription.created", "customer.subscription.updated",
     "customer.subscription.deleted"}
EventTypes == RecognizedEvents \cup {"invoice.paid"}

\* webhook payloads: one event of each type, and bytes that are no event
MalformedPayload == [type |-> "", id |-> "", json |-> FALSE]
Payloads ==
    {[type |-> t, id |-> "evt_1", json |-> TRUE] : t \in EventTypes}
    \cup {MalformedPayload}

\* the signature the processor computes over a payload with a secret
Sign(payload, secret) == [payload |-> payload, secret |-> secret]

\* the signatures a sender may attach to a payload for a receiver's secret:
\* the right one, one made with another secret, one made for another
\* payload, and none
Signatures(payload, secret) ==
    {Sign(payload, secret), Sign(payload, "whsec_other"),
     Sign([payload EXCEPT !.id = "evt_2"], secret), Sign(MalformedPayload, "")}

WebhookSecrets == {"whsec_test"}

(* --------------------------- pure functions --------------------------- *)

Digits == <<"0", "1", "2", "3", "4", "5", "6", "7", "8", "9">>

\* strconv.FormatInt(n, 10)
RECURSIVE FormatNat(_)
FormatNat(n) ==
    IF n < 10 THEN Digits[n + 1] ELSE FormatNat(n \div 10) \o Digits[(n % 10) + 1]
FormatInt(n) == IF n < 0 THEN "-" \o FormatNat(-n) ELSE FormatNat(n)

DigitVal(c) ==
    IF \E i \in 1..10 : Digits[i] = c
    THEN (CHOOSE i \in 1..10 : Digits[i] = c) - 1
    ELSE -1

RECURSIVE ParseDigits(_, _)
ParseDigits(s, acc) ==
    IF s = "" THEN [val |-> acc, err |-> FALSE]
    ELSE LET d == DigitVal(SubSeq(s, 1, 1))
         IN  IF d < 0 THEN [val |-> 0, err |-> TRUE]
             ELSE ParseDigits(Tail(s), acc * 10 + d)

\* faulty variant: the empty string parses as 0
ParseInt_EmptyIsZero(s) ==
    IF s = "" THEN [val |-> 0, err |-> FALSE]
    ELSE LET c == SubSeq(s, 1, 1)
             body == IF c \in {"+", "-"} THEN Tail(s) ELSE s
             r == ParseDigits(body, 0)
         IN  IF body = "" THEN [val |-> 0, err |-> TRUE]
             ELSE IF r.err THEN r
             ELSE [val |-> IF c = "-" THEN -r.val ELSE r.val, err |-> FALSE]

\* strconv.ParseInt(s, 10, bitSize) on the identifiers of the model, all of
\* which are shorter than ten characters (no range error arises)
ParseInt(s) ==
    IF s = "" THEN [val |-> 0, err |-> TRUE]
    ELSE LET c == SubSeq(s, 1, 1)
             body == IF c \in {"+", "-"} THEN Tail(s) ELSE s
             r == ParseDigits(body, 0)
         IN  IF body = "" THEN [val |-> 0, err |-> TRUE]
             ELSE IF r.err THEN r
             ELSE [val |-> IF c = "-" THEN -r.val ELSE r.val, err |-> FALSE]

\* faulty variant: any integer type is taken as the identity
getUserFromContext_AnyInt(ctx) ==
    IF ctx.kind = "nil" THEN [userID |-> 0, err |-> TRUE]
    ELSE IF ctx.kind \notin {"int64", "int"} THEN [userID |-> 0, err |-> TRUE]
    ELSE [userID |-> ctx.val, err |-> FALSE]

\* getUserFromContext: the identity, or an error when the value is missing
\* or is not an int64
getUserFromContext(ctx) ==
    IF ctx.kind = "nil" THEN [userID |-> 0, err |-> TRUE]
    ELSE IF ctx.kind # "int64" THEN [userID |-> 0, err |-> TRUE]
    ELSE [userID |-> ctx.val, err |-> FALSE]

\* faulty variant: the two prices are exchanged
mapPlanIDToStripePrice_Swapped(planID) ==
    CASE planID = 1 -> "price_pro_456"
      [] planID = 2 -> "price_basic_123"
      [] OTHER -> ""

\* faulty variant: the default arm returns a price instead of ""
mapPlanIDToStripePrice_Default(planID) ==
    CASE planID = 1 -> "price_basic_123"
      [] planID = 2 -> "price_pro_456"
      [] OTHER -> "price_basic_123"

mapPlanIDToStripePrice(planID) ==
    CASE planID = 1 -> "price_basic_123"
      [] planID = 2 -> "price_pro_456"
      [] OTHER -> ""

\* faulty variant: the default arm returns ACTIVE instead of UNSPECIFIED
getPaymentStatusFromStripe_DefaultActive(subscriptionStatus) ==
    CASE subscriptionStatus = "canceled" -> "SUBSCRIPTION_STATUS_CANCELED"
      [] subscriptionStatus = "incomplete_expired" ->
             "SUBSCRIPTION_STATUS_INCOMPLETE_EXPIRED"
      [] subscriptionStatus = "unpaid" -> "SUBSCRIPTION_STATUS_UNPAID"
      [] subscriptionStatus = "trialing" -> "SUBSCRIPTION_STATUS_TRIALING"
      [] OTHER -> "SUBSCRIPTION_STATUS_ACTIVE"

getPaymentStatusFromStripe(subscriptionStatus) ==
    CASE subscriptionStatus = "active" -> "SUBSCRIPTION_STATUS_ACTIVE"
      [] subscriptionStatus = "canceled" -> "SUBSCRIPTION_STATUS_CANCELED"
      [] subscriptionStatus = "incomplete_expired" ->
             "SUBSCRIPTION_STATUS_INCOMPLETE_EXPIRED"
      [] subscriptionStatus = "unpaid" -> "SUBSCRIPTION_STATUS_UNPAID"
      [] subscriptionStatus = "trialing" -> "SUBSCRIPTION_STATUS_TRIALING"
      [] OTHER -> "SUBSCRIPTION_STATUS_UNSPECIFIED"

\* faulty variant: the INVALID_PAYMENT_METHOD arm is missing
mapStatusToError_MissingArm(opstatus) ==
    CASE opstatus = STATUS_INVALID_USER -> "InvalidArgument"
      [] opstatus = STATUS_INVALID_PLAN -> "InvalidArgument"
      [] OTHER -> "Internal"

\* mapStatusToError: the gRPC code of the error the adapter returns
mapStatusToError(opstatus) ==
    CASE opstatus = STATUS_INVALID_USER -> "InvalidArgument"
      [] opstatus = STATUS_INVALID_PLAN -> "InvalidArgument"
      [] opstatus = STATUS_INVALID_PAYMENT_METHOD -> "InvalidArgument"
      [] OTHER -> "Internal"

(* ----------------------- Go's time.Time.AddDate ------------------------ *)

\* days since 1970-01-01 of the civil date y-m-d (proleptic Gregorian)
DaysFromCivil(y, m, d) ==
    LET yy == IF m <= 2 THEN y - 1 ELSE y
        era == yy \div 400
        yoe == yy - era * 400
        mp == (m + 9) % 12
        doy == (153 * mp + 2) \div 5 + d - 1
        doe == yoe * 365 + yoe \div 4 - yoe \div 100 + doy
    IN  era * 146097 + doe - 719468

\* the civil date [y, m, d] of a day count
CivilFromDays(z) ==
    LET zz == z + 719468
        era == zz \div 146097
        doe == zz - era * 146097
        yoe == (doe - doe \div 1460 + doe \div 36524 - doe \div 146096) \div 365
        doy == doe - (365 * yoe + yoe \div 4 - yoe \div 100)
        mp == (5 * doy + 2) \div 153
        d == doy - (153 * mp + 2) \div 5 + 1
        m == IF mp < 10 THEN mp + 3 ELSE mp - 9
    IN  [y |-> yoe + era * 400 + (IF m <= 2 THEN 1 ELSE 0), m |-> m, d |-> d]

\* time.Unix(t, 0).AddDate(0, 1, 0).Unix() in UTC: the month is advanced and an
\* overflowing day of month is normalised into the following month
AddOneMonth(t) ==
    LET secondsPerDay == 86400
        c == CivilFromDays(t \div secondsPerDay)
        y1 == IF c.m = 12 THEN c.y + 1 ELSE c.y
        m1 == IF c.m = 12 THEN 1 ELSE c.m + 1
    IN  (DaysFromCivil(y1, m1, 1) + c.d - 1) * secondsPerDay + (t % secondsPerDay)

(* ------------------------------- state -------------------------------- *)

\* data.Subscription{}: the zero value
EmptySubscription ==
    [ID |-> "", PlanID |-> "", StripeSubID |-> "",
     Status |-> "SUBSCRIPTION_STATUS_UNSPECIFIED", CurrentPeriodEnd |-> 0]

NoResponse == [kind |-> "nil"]

\* no invocation in flight
IdleInv ==
    [op |-> "none", pc |-> "idle",
     ctx |-> NoValue, planID |-> 0, pm |-> "", subID |-> "",
     userIDStr |-> "", stripePrice |-> "", customerID |-> "",
     fetched |-> "", cancelAnswer |-> "", calls |-> <<>>,
     pre |-> [customers |-> {}, attached |-> {}, defaults |-> {}, subs |-> <<>>],
     outID |-> "", outStatus |-> "", record |-> EmptySubscription,
     rpcCode |-> "", rpcResp |-> NoResponse,
     now |-> 0,
     hook |-> [payload |-> MalformedPayload,
               signature |-> Sign(MalformedPayload, ""), secret |-> ""],
     hookErr |-> FALSE, handler |-> "none", logs |-> <<>>]

\* one processor request of the invocation: endpoint, target, parameter, answer
Call(ep, target, param, ok) ==
    [ep |-> ep, target |-> target, param |-> param, ok |-> ok]

Issue(i, ep, target, param, ok) == Append(i.calls, Call(ep, target, param, ok))

CustomerIDs == {c.id : c \in customers}
CreatedCustomers == {c \in customers : c.created}
CreatedSubs == {id \in DOMAIN subs : subs[id].created}

\* the subscriptions the processor holds before the service starts: "42" in any
\* status with its item, or without items
\* ended_at of the canceled subscription is 2025-01-01 00:00:00 UTC
InitialSubs ==
    LET ended == 1735689600
    IN  {("42" :> [status |-> st, price |-> "price_basic_123",
                   items |-> TRUE, created |-> FALSE,
                   endedAt |-> IF st = "canceled" THEN ended ELSE 0]) :
            st \in StripeStatuses}
        \cup
        {("42" :> [status |-> "active", price |-> "",
                   items |-> FALSE, created |-> FALSE, endedAt |-> 0])}

\* what is kept of a finished invocation to compare a second one with
Summary(i, works) ==
    [op |-> i.op, ctx |-> i.ctx, planID |-> i.planID, pm |-> i.pm,
     subID |-> i.subID, now |-> i.now, hook |-> i.hook, pre |-> i.pre,
     calls |-> i.calls, outID |-> i.outID, outStatus |-> i.outStatus,
     record |-> i.record, hookErr |-> i.hookErr, rpcCode |-> i.rpcCode,
     rpcResp |-> i.rpcResp, cancelAnswer |-> i.cancelAnswer,
     logWorks |-> works]

NoRun == Summary(IdleInv, TRUE)

\* the concurrent RPC handlers of the process
Handlers == {1, 2}

\* a handler between two requests
IdleHandler ==
    [pc |-> "idle", level |-> "INFO", n |-> 0, key |-> "", err |-> FALSE,
     prints |-> 0]

\* LogConfig: nil for a logger made by New, MaxSize in megabytes otherwise
NoConfig == [nil |-> TRUE, MaxSize |-> 0]

\* jsonlog.New(os.Stdout, level): handle 0 is os.Stdout, currentFile 0 is nil,
\* mu 0 is the unlocked mutex
StdoutLogger(minLevel) ==
    [out |-> 0, minLevel |-> minLevel, mu |-> 0, config |-> NoConfig,
     currentFile |-> 0, fileSize |-> 0]

\* the process after main has built the logger and the services: stripe.Key
\* holds the literal of New, every handler is idle
InitProcess ==
    /\ stripeKey = "key"
    /\ logger = StdoutLogger("INFO")
    /\ handlers = [g \in Handlers |-> IdleHandler]
    /\ files = <<>>
    /\ output = <<>>

InitProcessor ==
    /\ customers \in {{}, {[id |-> "7", user_id |-> "7", created |-> FALSE]}}
    /\ attached = {}
    /\ defaults = {}
    /\ subs \in InitialSubs

Init ==
    /\ InitProcessor
    /\ inv = IdleInv
    /\ lastCancel = [called |-> FALSE, subID |-> "", status |-> ""]
    /\ logWorks = TRUE
    /\ firstRun = NoRun
    /\ InitProcess

CanStart == inv.pc = "idle"

\* a fresh invocation; pre keeps the processor's state at its start
Start(op) ==
    [IdleInv EXCEPT !.op = op,
                    !.pre = [customers |-> customers, attached |-> attached,
                             defaults |-> defaults, subs |-> subs]]

(* -------------------- orchestrator: CreateSubscription ----------------- *)

\* Logger.printWithContext and Logger.print as the orchestrator sees them: the
\* bytes written and the error of the write
printWithContext(level, message) ==
    IF logWorks THEN [n |-> Len(message) + 1, err |-> FALSE]
    ELSE [n |-> 0, err |-> TRUE]

\* an entry handed to the logger, and whether it reached the output
LogEntry(level, message) ==
    [level |-> level, message |-> message,
     written |-> ~printWithContext(level, message).err]

\* faulty variant: an entry that cannot be written ends the invocation
PrintWithContext_FailStops(i, level, message) ==
    IF printWithContext(level, message).err
    THEN [i EXCEPT !.pc = "return", !.outID = "",
                   !.outStatus = STATUS_INTERNAL_ERROR]
    ELSE [i EXCEPT !.logs = Append(@, LogEntry(level, message))]

\* Logger.PrintInfoWithContext, PrintWarnWithContext, PrintErrorWithContext:
\* the entry goes to the logger and the result of printWithContext is dropped
PrintWithContext(i, level, message) ==
    [i EXCEPT !.logs = Append(@, LogEntry(level, message))]

PrintInfoWithContext(i, message) == PrintWithContext(i, "INFO", message)
PrintErrorWithContext(i, message) == PrintWithContext(i, "ERROR", message)

Returned(i, id, status) ==
    [i EXCEPT !.pc = "return", !.outID = id, !.outStatus = status]

\* faulty variant: the payment method is checked before the plan
CreateValidate_PaymentFirst(ctx, planID, paymentMethodID) ==
    IF getUserFromContext(ctx).err THEN STATUS_INVALID_USER
    ELSE IF paymentMethodID = "" THEN STATUS_INVALID_PAYMENT_METHOD
    ELSE IF mapPlanIDToStripePrice(planID) = "" THEN STATUS_INVALID_PLAN
    ELSE "pass"

\* faulty variant: the payment method is not checked
CreateValidate_NoTokenCheck(ctx, planID, paymentMethodID) ==
    IF getUserFromContext(ctx).err THEN STATUS_INVALID_USER
    ELSE IF mapPlanIDToStripePrice(planID) = "" THEN STATUS_INVALID_PLAN
    ELSE "pass"

\* the three input checks of CreateSubscription, in the order of the code:
\* the outcome of the first failing one, or "pass"
CreateValidate(ctx, planID, paymentMethodID) ==
    IF getUserFromContext(ctx).err THEN STATUS_INVALID_USER
    ELSE IF mapPlanIDToStripePrice(planID) = "" THEN STATUS_INVALID_PLAN
    ELSE IF paymentMethodID = "" THEN STATUS_INVALID_PAYMENT_METHOD
    ELSE "pass"

\* the adapter decodes the request and calls the orchestrator, which runs up
\* to its first processor call
CreateSubscription(ctx, planID, paymentMethodID) ==
    /\ CanStart
    /\ LET v == CreateValidate(ctx, planID, paymentMethodID)
           start == [Start("create") EXCEPT !.ctx = ctx, !.planID = planID,
                                          !.pm = paymentMethodID]
       IN  inv' = IF v = STATUS_INVALID_USER
                  THEN PrintErrorWithContext(Returned(start, "", v),
                                             "user id is missing or invalid in context")
                  ELSE IF v = STATUS_INVALID_PLAN
                  THEN PrintErrorWithContext(Returned(start, "", v),
                                             "invalid plan ID")
                  ELSE IF v # "pass"
                  THEN PrintErrorWithContext(Returned(start, "", v),
                                             "payment method ID is required")
                  ELSE PrintInfoWithContext(
                         PrintInfoWithContext(
                           [start EXCEPT
                              !.pc = "customer.Get",
                              !.userIDStr = FormatInt(getUserFromContext(ctx).userID),
                              !.stripePrice = mapPlanIDToStripePrice(planID)],
                           "Starting subscription creation process"),
                         "Getting or creating Stripe customer")
    /\ UNCHANGED <<customers, attached, defaults, subs, lastCancel, logWorks, firstRun,
                 processVars>>

\* faulty variant: a failed lookup ends the invocation
AfterCustomerGet_Fail(i, ok, id) ==
    IF ok THEN [i EXCEPT !.customerID = id, !.pc = "paymentmethod.Attach"]
    ELSE Returned(i, "", STATUS_INTERNAL_ERROR)

\* getOrCreateCustomer after customer.Get has returned: the customer found, or
\* on any error the creation of a new one
AfterCustomerGet(i, ok, id) ==
    IF ok
    THEN PrintInfoWithContext(
           PrintInfoWithContext(
             [i EXCEPT !.customerID = id, !.pc = "paymentmethod.Attach"],
             "Retrieved existing Stripe customer"),
           "Attaching payment method to customer")
    ELSE [i EXCEPT !.pc = "customer.New"]

\* getOrCreateCustomer: customer.Get(userID)
getOrCreateCustomerGet ==
    /\ inv.pc = "customer.Get"
    /\ \E ok \in BOOLEAN :
          /\ ok => inv.userIDStr \in CustomerIDs
          /\ inv' = AfterCustomerGet(
                        [inv EXCEPT !.calls = Issue(inv, "customer.Get",
                                                    inv.userIDStr, "", ok)],
                        ok, inv.userIDStr)
    /\ UNCHANGED <<customers, attached, defaults, subs, lastCancel, logWorks, firstRun,
                 processVars>>

\* faulty variant: the identifier that was looked up is kept for the new
\* customer
AfterCustomerNew_LookupID(i, ok, id) ==
    IF ok THEN [i EXCEPT !.customerID = i.userIDStr, !.pc = "paymentmethod.Attach"]
    ELSE Returned(i, "", STATUS_INTERNAL_ERROR)

\* getOrCreateCustomer after customer.New has returned, and CreateSubscription
\* after getOrCreateCustomer: a failure ends the invocation with INTERNAL_ERROR
AfterCustomerNew(i, ok, id) ==
    IF ok
    THEN PrintInfoWithContext(
           PrintInfoWithContext(
             [i EXCEPT !.customerID = id, !.pc = "paymentmethod.Attach"],
             "Created new Stripe customer"),
           "Attaching payment method to customer")
    ELSE PrintErrorWithContext(
           PrintErrorWithContext(Returned(i, "", STATUS_INTERNAL_ERROR),
                                 "customer.New"),
           "Failed to get or create customer")

\* getOrCreateCustomer: customer.New with the identity as metadata
getOrCreateCustomerNew ==
    /\ inv.pc = "customer.New"
    /\ \E ok \in BOOLEAN :
          LET id == "cus_" \o FormatInt(Cardinality(CreatedCustomers) + 1)
              issued == [inv EXCEPT
                           !.calls = Issue(inv, "customer.New", "", inv.userIDStr, ok)]
          IN  /\ ok => Cardinality(CreatedCustomers) < MaxCustomers
              /\ customers' = IF ok
                              THEN customers \cup {[id |-> id, user_id |-> inv.userIDStr,
                                                    created |-> TRUE]}
                              ELSE customers
              /\ inv' = AfterCustomerNew(issued, ok, id)
    /\ UNCHANGED <<attached, defaults, subs, lastCancel, logWorks, firstRun,
                 processVars>>

\* faulty variant: the creation request follows the attachment at once
AfterAttach_SkipUpdate(i, ok) == [i EXCEPT !.pc = "subscription.New"]

\* faulty variant: a failed attachment does not end the invocation
AfterAttach_Continue(i, ok) == [i EXCEPT !.pc = "customer.Update"]

\* CreateSubscription after attachPaymentMethod has returned: an error ends the
\* invocation with INVALID_PAYMENT_METHOD
AfterAttach(i, ok) ==
    IF ok
    THEN PrintInfoWithContext(
           PrintInfoWithContext(
             [i EXCEPT !.pc = "customer.Update"],
             "Payment method attached to customer successfully"),
           "Setting default payment method for customer")
    ELSE PrintErrorWithContext(
           PrintErrorWithContext(Returned(i, "", STATUS_INVALID_PAYMENT_METHOD),
                                 "paymentmethod.Attach"),
           "Failed to attach payment method")

\* attachPaymentMethod: paymentmethod.Attach(paymentMethodID, customer)
attachPaymentMethod ==
    /\ inv.pc = "paymentmethod.Attach"
    /\ \E ok \in BOOLEAN :
          LET issued == [inv EXCEPT
                           !.calls = Issue(inv, "paymentmethod.Attach",
                                           inv.customerID, inv.pm, ok)]
          IN  /\ ok => inv.pm \in KnownPaymentMethods
              /\ attached' = IF ok
                             THEN attached \cup {<<inv.customerID, inv.pm>>}
                             ELSE attached
              /\ inv' = AfterAttach(issued, ok)
    /\ UNCHANGED <<customers, defaults, subs, lastCancel, logWorks, firstRun,
                 processVars>>

\* faulty variant: after a failed update the invocation waits for a signal
\* that never comes
AfterSetDefault_Wait(i, ok) ==
    IF ok THEN [i EXCEPT !.pc = "subscription.New"]
    ELSE [i EXCEPT !.pc = "select"]

\* faulty variant: a failed update ends the invocation
AfterSetDefault_Abort(i, ok) ==
    IF ok THEN [i EXCEPT !.pc = "subscription.New"]
    ELSE Returned(i, "", STATUS_INTERNAL_ERROR)

\* CreateSubscription after setDefaultPaymentMethod has returned: its error is
\* logged and the flow continues
AfterSetDefault(i, ok) ==
    IF ok
    THEN PrintInfoWithContext([i EXCEPT !.pc = "subscription.New"],
                              "Default payment method set successfully")
    ELSE PrintErrorWithContext(
           PrintErrorWithContext([i EXCEPT !.pc = "subscription.New"],
                                 "customer.Update"),
           "Failed to set default payment method")

\* setDefaultPaymentMethod: customer.Update(customer, default payment method)
setDefaultPaymentMethod ==
    /\ inv.pc = "customer.Update"
    /\ \E ok \in BOOLEAN :
          /\ defaults' = IF ok
                         THEN {d \in defaults : d[1] # inv.customerID}
                                \cup {<<inv.customerID, inv.pm>>}
                         ELSE defaults
          /\ inv' = AfterSetDefault(
                        [inv EXCEPT !.calls = Issue(inv, "customer.Update",
                                                    inv.customerID, inv.pm, ok)],
                        ok)
    /\ UNCHANGED <<customers, attached, subs, lastCancel, logWorks, firstRun,
                 processVars>>

\* faulty variant: a failed creation request is issued again
AfterSubscriptionNew_Retry(i, ok, id) ==
    IF ok THEN Returned(i, id, STATUS_OK)
    ELSE [i EXCEPT !.pc = "subscription.New"]

\* faulty variant: the result of the creation request is not looked at
AfterSubscriptionNew_AlwaysOK(i, ok, id) == Returned(i, id, STATUS_OK)

\* CreateSubscription after subscription2.New has returned: OK with the
\* processor's identifier, or INTERNAL_ERROR and no identifier
AfterSubscriptionNew(i, ok, id) ==
    IF ok
    THEN PrintInfoWithContext(Returned(i, id, STATUS_OK),
                              "Subscription created successfully")
    ELSE PrintErrorWithContext(Returned(i, "", STATUS_INTERNAL_ERROR),
                               "subscription.New")

\* faulty variant: a failed creation request is followed by a detachment of
\* the payment method
CreateSubscriptionNew_Rollback ==
    /\ inv.pc = "subscription.New"
    /\ \E ok \in BOOLEAN :
          LET id == "sub_" \o FormatInt(Cardinality(CreatedSubs) + 1)
              issued == [inv EXCEPT
                           !.calls = Issue(inv, "subscription.New",
                                           inv.customerID, inv.stripePrice, ok)]
              undone == [issued EXCEPT
                           !.calls = Issue(issued, "paymentmethod.Detach",
                                           inv.customerID, inv.pm, TRUE)]
          IN  /\ ok => Cardinality(CreatedSubs) < MaxSubs
              /\ subs' = IF ok
                         THEN subs @@ (id :> [status |-> "incomplete",
                                              price |-> inv.stripePrice,
                                              items |-> TRUE, created |-> TRUE,
                                              endedAt |-> 0])
                         ELSE subs
              /\ attached' = IF ok THEN attached
                             ELSE attached \ {<<inv.customerID, inv.pm>>}
              /\ inv' = AfterSubscriptionNew(IF ok THEN issued ELSE undone, ok, id)
    /\ UNCHANGED <<customers, defaults, lastCancel, logWorks, firstRun,
                 processVars>>

\* subscription.New(customer, price, default_incomplete): the processor assigns
\* the identifier
CreateSubscriptionNew ==
    /\ inv.pc = "subscription.New"
    /\ \E ok \in BOOLEAN :
          LET id == "sub_" \o FormatInt(Cardinality(CreatedSubs) + 1)
              issued == [inv EXCEPT
                           !.calls = Issue(inv, "subscription.New",
                                           inv.customerID, inv.stripePrice, ok)]
          IN  /\ ok => Cardinality(CreatedSubs) < MaxSubs
              /\ subs' = IF ok
                         THEN subs @@ (id :> [status |-> "incomplete",
                                              price |-> inv.stripePrice,
                                              items |-> TRUE, created |-> TRUE,
                                              endedAt |-> 0])
                         ELSE subs
              /\ inv' = AfterSubscriptionNew(issued, ok, id)
    /\ UNCHANGED <<customers, attached, defaults, lastCancel, logWorks, firstRun,
                 processVars>>

(* -------------------- orchestrator: CancelSubscription ----------------- *)

\* faulty variant: the identifier is not checked
CancelValidate_Any(stripeSubID) == TRUE

\* faulty variant: an already canceled subscription is canceled again
CancelAfterGet_NoShortCircuit(ok, status) ==
    IF ~ok THEN STATUS_INTERNAL_ERROR ELSE "cancel"

\* faulty variant: the error of the fetch is ignored
CancelAfterGet_IgnoreError(ok, status) ==
    IF status = "canceled" THEN STATUS_OK ELSE "cancel"

\* faulty variant: the status of the answer is not verified
CancelOutcome_Unverified(ok, status) ==
    IF ~ok THEN STATUS_INTERNAL_ERROR ELSE STATUS_OK

\* faulty variant: any fetched subscription counts as canceled
CancelAfterGet_AnyStatusOK(ok, status) ==
    IF ~ok THEN STATUS_INTERNAL_ERROR ELSE STATUS_OK

\* step 1 of CancelSubscription: the identifier must not be empty
CancelValidate(stripeSubID) == stripeSubID # ""

\* step 2: what follows the fetch, from its error and the fetched status
CancelAfterGet(ok, status) ==
    IF ~ok THEN STATUS_INTERNAL_ERROR
    ELSE IF status = "canceled" THEN STATUS_OK
    ELSE "cancel"

\* steps 3 and 4: the outcome after the cancel request, from its error and
\* the status of the subscription it answered with
CancelOutcome(ok, status) ==
    IF ~ok THEN STATUS_INTERNAL_ERROR
    ELSE IF status = "canceled" THEN STATUS_OK
    ELSE STATUS_INTERNAL_ERROR

\* the status the processor holds for an identifier ("" when it has none)
StatusOf(id) == IF id \in DOMAIN subs THEN subs[id].status ELSE ""

\* the adapter decodes the request and calls the orchestrator, which rejects
\* an empty identifier before any processor call
CancelSubscription(stripeSubID) ==
    /\ CanStart
    /\ LET start == [Start("cancel") EXCEPT !.subID = stripeSubID]
       IN  inv' = IF ~CancelValidate(stripeSubID)
                  THEN PrintErrorWithContext(
                         Returned(start, "", STATUS_INTERNAL_ERROR),
                         "subscription ID is required")
                  ELSE PrintInfoWithContext(
                         [start EXCEPT !.pc = "cancel.subscription.Get"],
                         "Starting subscription cancellation process")
    /\ UNCHANGED <<customers, attached, defaults, subs, lastCancel, logWorks, firstRun,
                 processVars>>

\* subscription.Get: a failure is INTERNAL_ERROR, an already canceled
\* subscription is OK without a cancel request
CancelSubscriptionGet ==
    /\ inv.pc = "cancel.subscription.Get"
    /\ \E ok \in BOOLEAN :
          LET issued == [inv EXCEPT
                           !.calls = Issue(inv, "subscription.Get", inv.subID, "", ok),
                           !.fetched = IF ok THEN StatusOf(inv.subID) ELSE ""]
              after == CancelAfterGet(ok, StatusOf(inv.subID))
          IN  /\ ok => inv.subID \in DOMAIN subs
              /\ inv' = IF after = "cancel"
                        THEN [issued EXCEPT !.pc = "subscription.Cancel"]
                        ELSE IF after = STATUS_OK
                        THEN PrintInfoWithContext(
                               Returned(issued, "", after),
                               "Subscription is already cancelled")
                        ELSE PrintErrorWithContext(
                               Returned(issued, "", after),
                               "Failed to retrieve subscription")
    /\ UNCHANGED <<customers, attached, defaults, subs, lastCancel, logWorks, firstRun,
                 processVars>>

\* subscription.Cancel: the processor refuses, or accepts and cancels, or
\* accepts and answers with the status it had; only a CANCELED answer is OK
CancelSubscriptionCancel ==
    /\ inv.pc = "subscription.Cancel"
    /\ \E ok \in BOOLEAN, applied \in BOOLEAN :
          LET answer == IF applied THEN "canceled" ELSE StatusOf(inv.subID)
              issued == [inv EXCEPT
                           !.calls = Issue(inv, "subscription.Cancel", inv.subID, "", ok),
                           !.cancelAnswer = IF ok THEN answer ELSE ""]
          IN  /\ ok => inv.subID \in DOMAIN subs
              /\ applied => ok
              /\ subs' = IF applied
                         THEN [subs EXCEPT ![inv.subID].status = "canceled"]
                         ELSE subs
              /\ inv' = LET done == Returned(issued, "", CancelOutcome(ok, answer))
                        IN  IF ~ok
                            THEN PrintErrorWithContext(
                                   done, "Failed to cancel subscription")
                            ELSE IF done.outStatus = STATUS_OK
                            THEN PrintInfoWithContext(
                                   done, "Subscription cancelled successfully")
                            ELSE PrintErrorWithContext(
                                   done, "subscription not cancelled")
    /\ UNCHANGED <<customers, attached, defaults, lastCancel, logWorks, firstRun,
                 processVars>>

(* --------------------- orchestrator: GetSubscription ------------------- *)

\* faulty variant: the identifier is not checked
GetValidate_Any(stripeSubID) == TRUE

\* the input check of GetSubscription: the identifier is not empty
GetValidate(stripeSubID) == stripeSubID # ""

\* the adapter decodes the request and calls the orchestrator, which answers
\* an empty identifier with the zero record
GetSubscription(stripeSubID) ==
    /\ CanStart
    /\ LET start == [Start("get") EXCEPT !.subID = stripeSubID]
       IN  inv' = IF ~GetValidate(stripeSubID)
                  THEN PrintErrorWithContext([start EXCEPT !.pc = "return"],
                                             "subscription ID is required")
                  ELSE PrintInfoWithContext(
                         [start EXCEPT !.pc = "get.subscription.Get"],
                         "Retrieving subscription details")
    /\ UNCHANGED <<customers, attached, defaults, subs, lastCancel, logWorks, firstRun,
                 processVars>>

\* faulty variant: the items of the fetched subscription are not counted
BuildRecord_NoItemCheck(id, sub, now) ==
    [ID |-> id, PlanID |-> sub.price, StripeSubID |-> id,
     Status |-> getPaymentStatusFromStripe(sub.status),
     CurrentPeriodEnd |-> AddOneMonth(now)]

\* faulty variant: the period end is taken from the fetched subscription
BuildRecord_EndedAt(id, sub, now) ==
    IF ~sub.items THEN EmptySubscription
    ELSE [ID |-> id, PlanID |-> sub.price, StripeSubID |-> id,
          Status |-> getPaymentStatusFromStripe(sub.status),
          CurrentPeriodEnd |-> sub.endedAt]

\* the record GetSubscription builds from a fetched subscription: the zero
\* record when it has no items, otherwise its identifier, the price of its
\* first item, its mapped status and the clock advanced by one month
BuildRecord(id, sub, now) ==
    IF ~sub.items THEN EmptySubscription
    ELSE [ID |-> id, PlanID |-> sub.price, StripeSubID |-> id,
          Status |-> getPaymentStatusFromStripe(sub.status),
          CurrentPeriodEnd |-> AddOneMonth(now)]

\* faulty variant: the fetched subscription is canceled as well
GetSubscriptionGet_Cancels ==
    /\ inv.pc = "get.subscription.Get"
    /\ inv.subID \in DOMAIN subs
    /\ subs' = [subs EXCEPT ![inv.subID].status = "canceled"]
    /\ inv' = [inv EXCEPT
                 !.calls = Append(Issue(inv, "subscription.Get", inv.subID, "", TRUE),
                                  Call("subscription.Cancel", inv.subID, "", TRUE)),
                 !.pc = "return"]
    /\ UNCHANGED <<customers, attached, defaults, lastCancel, logWorks, firstRun,
                 processVars>>

\* subscription.Get: a failure gives the zero record; otherwise the record is
\* built from the answer and the clock
GetSubscriptionGet ==
    /\ inv.pc = "get.subscription.Get"
    /\ \E ok \in BOOLEAN, now \in ClockValues :
          LET issued == [inv EXCEPT
                           !.calls = Issue(inv, "subscription.Get", inv.subID, "", ok),
                           !.fetched = IF ok THEN subs[inv.subID].status ELSE "",
                           !.now = now,
                           !.pc = "return"]
          IN  /\ ok => inv.subID \in DOMAIN subs
              /\ inv' = IF ~ok
                        THEN PrintErrorWithContext(
                               issued, "Failed to retrieve subscription")
                        ELSE LET rec == BuildRecord(inv.subID, subs[inv.subID], now)
                             IN  IF rec = EmptySubscription
                                 THEN PrintErrorWithContext(
                                        issued, "subscription has no items")
                                 ELSE PrintInfoWithContext(
                                        [issued EXCEPT !.record = rec],
                                        "Subscription details retrieved successfully")
    /\ UNCHANGED <<customers, attached, defaults, subs, lastCancel, logWorks, firstRun,
                 processVars>>

(* ------------------- orchestrator: HandleStripeWebhook ----------------- *)

\* faulty variant: the signature is not compared
ConstructEvent_NoVerify(payload, signature, secret) ==
    IF ~payload.json
    THEN [err |-> TRUE, type |-> "", id |-> ""]
    ELSE [err |-> FALSE, type |-> payload.type, id |-> payload.id]

\* stripe.ConstructEvent: an error unless the signature is the one the secret
\* gives for the payload and the payload is an event
ConstructEvent(payload, signature, secret) ==
    IF signature # Sign(payload, secret) \/ ~payload.json
    THEN [err |-> TRUE, type |-> "", id |-> ""]
    ELSE [err |-> FALSE, type |-> payload.type, id |-> payload.id]

\* faulty variant: an event of a type without a case is an error
Dispatch_DefaultFails(eventType) ==
    IF eventType \in RecognizedEvents
    THEN [err |-> FALSE, handler |-> eventType, log |-> LogEntry("INFO", eventType)]
    ELSE [err |-> TRUE, handler |-> "default",
          log |-> LogEntry("ERROR", "Received unhandled Stripe event")]

\* the switch on the event type: the case that runs, its log call, and the
\* error returned after it (none in any case)
Dispatch(eventType) ==
    LET arm(handler, level, message) ==
            [err |-> FALSE, handler |-> handler, log |-> LogEntry(level, message)]
    IN  CASE eventType = "payment_intent.succeeded" ->
                 arm(eventType, "INFO", "Payment succeeded")
          [] eventType = "payment_intent.payment_failed" ->
                 arm(eventType, "WARN", "Payment failed")
          [] eventType = "customer.subscription.created" ->
                 arm(eventType, "INFO", "Subscription created")
          [] eventType = "customer.subscription.updated" ->
                 arm(eventType, "INFO", "Subscription updated")
          [] eventType = "customer.subscription.deleted" ->
                 arm(eventType, "INFO", "Subscription deleted")
          [] OTHER ->
                 arm("default", "INFO", "Received unhandled Stripe event")

\* the body of HandleStripeWebhook: the error it returns, the case of the
\* switch that ran ("none" when the switch is not reached) and its log calls
WebhookRun(payload, signature, webhookSecret) ==
    LET event == ConstructEvent(payload, signature, webhookSecret)
        first == <<LogEntry("INFO", "Processing Stripe webhook event")>>
    IN  IF event.err
        THEN [err |-> TRUE, handler |-> "none",
              logs |-> Append(first,
                         LogEntry("ERROR", "Failed to verify webhook signature"))]
        ELSE LET d == Dispatch(event.type)
             IN  [err |-> d.err, handler |-> d.handler,
                  logs |-> Append(first, d.log)]

\* HandleStripeWebhook runs to its return without a processor request
HandleStripeWebhook(payload, signature, webhookSecret) ==
    /\ CanStart
    /\ LET r == WebhookRun(payload, signature, webhookSecret)
       IN  inv' = [Start("webhook") EXCEPT
                     !.pc = "done",
                     !.hook = [payload |-> payload, signature |-> signature,
                               secret |-> webhookSecret],
                     !.hookErr = r.err, !.handler = r.handler, !.logs = r.logs]
    /\ UNCHANGED <<customers, attached, defaults, subs, lastCancel, logWorks, firstRun,
                 processVars>>

(* --------------------------- transport adapter ------------------------- *)

\* serverAPI.CreateSubscription after the orchestrator returned
serverCreateSubscription(stripeSubId, opStatus) ==
    IF opStatus # STATUS_OK
    THEN [code |-> mapStatusToError(opStatus), resp |-> NoResponse]
    ELSE [code |-> "OK",
          resp |-> [kind |-> "CreateSubscriptionResponse",
                    SubStripeId |-> stripeSubId, Status |-> opStatus]]

\* serverAPI.CancelSubscription after the orchestrator returned
serverCancelSubscription(opStatus) ==
    IF opStatus # STATUS_OK
    THEN [code |-> mapStatusToError(opStatus), resp |-> NoResponse]
    ELSE [code |-> "OK",
          resp |-> [kind |-> "CancelSubscriptionResponse", Status |-> opStatus]]

\* faulty variant: the error of the identifier parse is dropped too
serverGetSubscription_IgnoreParseError(stripeSubID, subscription) ==
    [code |-> "OK",
     resp |-> [kind |-> "GetSubscriptionResponse",
               Id |-> ParseInt(subscription.ID).val,
               PlanId |-> ParseInt(subscription.PlanID).val,
               StripeSubscriptionId |-> stripeSubID,
               Status |-> subscription.Status,
               CurrentPeriodEnd |-> subscription.CurrentPeriodEnd]]

\* serverAPI.GetSubscription after the orchestrator returned: the record's
\* identifier is parsed as a number, the error of that parse is returned as it
\* is (gRPC code Unknown), the error of the plan parse is dropped
serverGetSubscription(stripeSubID, subscription) ==
    LET subId == ParseInt(subscription.ID)
        planID == ParseInt(subscription.PlanID)
    IN  IF subId.err
        THEN [code |-> "Unknown", resp |-> NoResponse]
        ELSE [code |-> "OK",
              resp |-> [kind |-> "GetSubscriptionResponse",
                        Id |-> subId.val, PlanId |-> planID.val,
                        StripeSubscriptionId |-> stripeSubID,
                        Status |-> subscription.Status,
                        CurrentPeriodEnd |-> subscription.CurrentPeriodEnd]]

\* the handler returns to the gRPC runtime
Respond(r) == [inv EXCEPT !.pc = "done", !.rpcCode = r.code, !.rpcResp = r.resp]

serverCreateReturn ==
    /\ inv.pc = "return" /\ inv.op = "create"
    /\ inv' = Respond(serverCreateSubscription(inv.outID, inv.outStatus))
    /\ UNCHANGED <<customers, attached, defaults, subs, lastCancel, logWorks, firstRun,
                 processVars>>

serverCancelReturn ==
    /\ inv.pc = "return" /\ inv.op = "cancel"
    /\ inv' = Respond(serverCancelSubscription(inv.outStatus))
    /\ UNCHANGED <<customers, attached, defaults, subs, lastCancel, logWorks, firstRun,
                 processVars>>

\* the same step, with the finished call recorded in the history variable
serverCancelReturnRecorded ==
    /\ inv.pc = "return" /\ inv.op = "cancel"
    /\ inv' = Respond(serverCancelSubscription(inv.outStatus))
    /\ lastCancel' = [called |-> TRUE, subID |-> inv.subID, status |-> inv.outStatus]
    /\ UNCHANGED <<logWorks, firstRun, processVars>>
    /\ UNCHANGED <<customers, attached, defaults, subs>>

serverGetReturn ==
    /\ inv.pc = "return" /\ inv.op = "get"
    /\ inv' = Respond(serverGetSubscription(inv.subID, inv.record))
    /\ UNCHANGED <<customers, attached, defaults, subs, lastCancel, logWorks, firstRun,
                 processVars>>

\* the response is delivered; the server waits for the next request
AwaitRequest ==
    /\ inv.pc = "done"
    /\ inv' = IdleInv
    /\ UNCHANGED <<customers, attached, defaults, subs, lastCancel, logWorks, firstRun,
                 processVars>>

(* ---------------------------- specification ---------------------------- *)

Next ==
    \/ \E ctx \in Contexts, planID \in PlanIDs, pm \in PaymentMethods :
          CreateSubscription(ctx, planID, pm)
    \/ getOrCreateCustomerGet
    \/ getOrCreateCustomerNew
    \/ attachPaymentMethod
    \/ setDefaultPaymentMethod
    \/ CreateSubscriptionNew
    \/ \E id \in SubIDArgs : CancelSubscription(id)
    \/ CancelSubscriptionGet
    \/ CancelSubscriptionCancel
    \/ \E id \in SubIDArgs : GetSubscription(id)
    \/ GetSubscriptionGet
    \/ \E payload \in Payloads, secret \in WebhookSecrets :
          \E signature \in Signatures(payload, secret) :
             HandleStripeWebhook(payload, signature, secret)
    \/ serverCreateReturn
    \/ serverCancelReturn
    \/ serverGetReturn
    \/ AwaitRequest

Spec == Init /\ [][Next]_vars

\* sequences of CancelSubscription calls, each recorded in lastCancel
NextCancel ==
    \/ \E id \in SubIDArgs : CancelSubscription(id)
    \/ CancelSubscriptionGet
    \/ CancelSubscriptionCancel
    \/ serverCancelReturnRecorded
    \/ AwaitRequest

SpecCancel == Init /\ [][NextCancel]_vars

(* ------------- invocations whose processor calls all return ----------- *)

\* a step of the invocation in flight: the answer of the processor call it is
\* blocked in and the code up to its next call or return, or the return
\* of the handler
Advance ==
    \/ getOrCreateCustomerGet
    \/ getOrCreateCustomerNew
    \/ attachPaymentMethod
    \/ setDefaultPaymentMethod
    \/ CreateSubscriptionNew
    \/ CancelSubscriptionGet
    \/ CancelSubscriptionCancel
    \/ GetSubscriptionGet
    \/ serverCreateReturn
    \/ serverCancelReturn
    \/ serverGetReturn

\* the processor holds the active subscription "42"
InitLive == Init /\ subs["42"].status = "active" /\ subs["42"].items

\* every processor call returns and the handler's goroutine keeps running
SpecLive == InitLive /\ [][Next]_vars /\ WF_vars(Advance)

(* ------------- two runs that differ in the log output only ------------ *)

\* the first run is over: it is kept, and the second run will start from the
\* processor state the first one started from, with the log output in the
\* other condition
Rewind ==
    /\ inv.pc = "done" /\ firstRun.op = "none"
    /\ firstRun' = Summary(inv, logWorks)
    /\ logWorks' = ~logWorks
    /\ customers' = inv.pre.customers
    /\ attached' = inv.pre.attached
    /\ defaults' = inv.pre.defaults
    /\ subs' = inv.pre.subs
    /\ inv' = IdleInv
    /\ UNCHANGED <<lastCancel, processVars>>

\* the second run is over: the pair is forgotten and the service goes on,
\* with the log output as it was before the pair
Forget ==
    /\ inv.pc = "done" /\ firstRun.op # "none"
    /\ firstRun' = NoRun
    /\ logWorks' = ~logWorks
    /\ inv' = IdleInv
    /\ UNCHANGED <<customers, attached, defaults, subs, lastCancel, processVars>>

\* the second run is the operation of the first run with the same arguments
SecondOf(op) == firstRun.op \in {"none", op}

NextLog ==
    \/ \E ctx \in Contexts, planID \in PlanIDs, pm \in PaymentMethods :
          /\ SecondOf("create")
          /\ firstRun.op = "create" =>
                ctx = firstRun.ctx /\ planID = firstRun.planID /\ pm = firstRun.pm
          /\ CreateSubscription(ctx, planID, pm)
    \/ getOrCreateCustomerGet
    \/ getOrCreateCustomerNew
    \/ attachPaymentMethod
    \/ setDefaultPaymentMethod
    \/ CreateSubscriptionNew
    \/ \E id \in SubIDArgs :
          /\ SecondOf("cancel")
          /\ firstRun.op = "cancel" => id = firstRun.subID
          /\ CancelSubscription(id)
    \/ CancelSubscriptionGet
    \/ CancelSubscriptionCancel
    \/ \E id \in SubIDArgs :
          /\ SecondOf("get")
          /\ firstRun.op = "get" => id = firstRun.subID
          /\ GetSubscription(id)
    \/ GetSubscriptionGet
    \/ \E payload \in Payloads, secret \in WebhookSecrets :
          \E signature \in Signatures(payload, secret) :
             /\ SecondOf("webhook")
             /\ firstRun.op = "webhook" =>
                   firstRun.hook = [payload |-> payload, signature |-> signature,
                                    secret |-> secret]
             /\ HandleStripeWebhook(payload, signature, secret)
    \/ serverCreateReturn
    \/ serverCancelReturn
    \/ serverGetReturn
    \/ Rewind
    \/ Forget

\* the pairs of runs start with an active subscription "42", with or without
\* items
InitLog ==
    /\ Init
    /\ subs["42"].status = "active"

SpecLog == InitLog /\ [][NextLog]_vars

(* ------------- concurrent handlers, the credential, the logger --------- *)

\* Level: the order of the log levels
LevelRank(level) ==
    CASE level = "DEBUG" -> 0
      [] level = "INFO" -> 1
      [] level = "WARN" -> 2
      [] level = "ERROR" -> 3
      [] level = "FATAL" -> 4
      [] OTHER -> 5

\* the levels handlers log at, and the sizes in bytes of their entries
PrintLevels == {"DEBUG", "INFO"}
EntrySizes == {400000, 700000}

\* NewFileLogger: the day's file is opened (handle 1) and its size is taken
\* from the file system
NewFileLogger(MaxSize, MaxBackups, size, minLevel) ==
    [out |-> 1, minLevel |-> minLevel, mu |-> 0,
     config |-> [nil |-> FALSE, MaxSize |-> MaxSize, MaxBackups |-> MaxBackups],
     currentFile |-> 1, fileSize |-> size]

\* the loggers main can build: on os.Stdout, or on a file with MaxSize -1, 0
\* or 1 megabytes whose day's file is empty or already holds 1200000 bytes
Loggers ==
    {StdoutLogger("INFO")}
    \cup {NewFileLogger(m, b, size, "INFO") :
             m \in {-1, 0, 1}, b \in {0, 1}, size \in {0, 1200000}}

\* int64(l.config.MaxSize*1024*1024)
SizeLimit == logger.config.MaxSize * 1024 * 1024

\* the process after main has built a logger and the services; the processor
\* plays no part in what follows
InitConcurrent ==
    /\ customers = {} /\ attached = {} /\ defaults = {}
    /\ subs = ("42" :> [status |-> "active", price |-> "price_basic_123",
                        items |-> TRUE, created |-> FALSE, endedAt |-> 0])
    /\ inv = IdleInv
    /\ lastCancel = [called |-> FALSE, subID |-> "", status |-> ""]
    /\ logWorks = TRUE
    /\ firstRun = NoRun
    /\ stripeKey = "key"
    /\ logger \in Loggers
    /\ handlers = [g \in Handlers |-> IdleHandler]
    /\ files = IF logger.config.nil THEN <<>>
               ELSE <<[open |-> TRUE, removed |-> FALSE]>>
    /\ output = <<>>

serviceVars == <<customers, attached, defaults, subs, inv, lastCancel, logWorks,
                 firstRun>>

\* faulty variant: the request sets the credential, as NewStripeClient does
StripeRequest_SetsKey(g) ==
    /\ handlers[g].pc = "idle"
    /\ stripeKey' = "key_2"
    /\ handlers' = [handlers EXCEPT ![g].key = "key_2"]
    /\ UNCHANGED <<serviceVars, logger, files, output>>

\* a handler issues a processor request: the client library reads stripe.Key
StripeRequest(g) ==
    /\ handlers[g].pc = "idle"
    /\ handlers' = [handlers EXCEPT ![g].key = stripeKey]
    /\ UNCHANGED <<serviceVars, stripeKey, logger, files, output>>

\* Logger.print up to the mutex: an entry below minLevel is dropped, any other
\* is marshalled
print(g, level, n) ==
    /\ handlers[g].pc = "idle"
    /\ handlers[g].prints < MaxPrints
    /\ handlers' = [handlers EXCEPT
                      ![g] = IF LevelRank(level) < LevelRank(logger.minLevel)
                             THEN [@ EXCEPT !.prints = @ + 1]
                             ELSE [@ EXCEPT !.pc = "Lock", !.level = level,
                                            !.n = n]]
    /\ UNCHANGED <<serviceVars, stripeKey, logger, files, output>>

\* faulty variant: the mutex is taken without waiting for it
printLock_NoWait(g) ==
    /\ handlers[g].pc = "Lock"
    /\ logger' = [logger EXCEPT !.mu = g]
    /\ handlers' = [handlers EXCEPT ![g].pc = "Write"]
    /\ UNCHANGED <<serviceVars, stripeKey, files, output>>

\* l.mu.Lock()
printLock(g) ==
    /\ handlers[g].pc = "Lock"
    /\ logger.mu = 0
    /\ logger' = [logger EXCEPT !.mu = g]
    /\ handlers' = [handlers EXCEPT ![g].pc = "Write"]
    /\ UNCHANGED <<serviceVars, stripeKey, files, output>>

\* whether a write to the logger's output can succeed: not on a closed file
Writable == logger.out = 0 \/ files[logger.out].open

\* l.out.Write starts: the first bytes of the entry reach the output, or the
\* write fails and print returns its error
printWrite(g) ==
    /\ handlers[g].pc = "Write"
    /\ \E ok \in (IF Writable THEN BOOLEAN ELSE {FALSE}) :
          IF ok
          THEN /\ output' = Append(output, [g |-> g, part |-> "first",
                                            file |-> logger.out])
               /\ handlers' = [handlers EXCEPT ![g].pc = "Writing"]
          ELSE /\ output' = output
               /\ handlers' = [handlers EXCEPT ![g].pc = "Unlock", ![g].err = TRUE]
    /\ UNCHANGED <<serviceVars, stripeKey, logger, files>>

\* l.out.Write ends: the last bytes of the entry reach the output
printWritten(g) ==
    /\ handlers[g].pc = "Writing"
    /\ output' = Append(output, [g |-> g, part |-> "last", file |-> logger.out])
    /\ handlers' = [handlers EXCEPT ![g].pc = "rotateLogFileIfNeeded"]
    /\ UNCHANGED <<serviceVars, stripeKey, logger, files>>

\* faulty variant: the size is compared before the bytes are added
rotateLogFileIfNeeded_CheckFirst(g) ==
    /\ handlers[g].pc = "rotateLogFileIfNeeded"
    /\ IF logger.config.nil \/ logger.currentFile = 0
       THEN /\ logger' = logger
            /\ handlers' = [handlers EXCEPT ![g].pc = "Unlock"]
       ELSE /\ logger' = [logger EXCEPT !.fileSize = @ + handlers[g].n]
            /\ handlers' = [handlers EXCEPT
                              ![g].pc = IF logger.fileSize > SizeLimit
                                        THEN "Close" ELSE "Unlock"]
    /\ UNCHANGED <<serviceVars, stripeKey, files, output>>

\* rotateLogFileIfNeeded: nothing without a file; otherwise the bytes are
\* added to the tracked size and the size is compared with the limit
rotateLogFileIfNeeded(g) ==
    /\ handlers[g].pc = "rotateLogFileIfNeeded"
    /\ IF logger.config.nil \/ logger.currentFile = 0
       THEN /\ logger' = logger
            /\ handlers' = [handlers EXCEPT ![g].pc = "Unlock"]
       ELSE /\ logger' = [logger EXCEPT !.fileSize = @ + handlers[g].n]
            /\ handlers' = [handlers EXCEPT
                              ![g].pc = IF logger.fileSize + handlers[g].n > SizeLimit
                                        THEN "Close" ELSE "Unlock"]
    /\ UNCHANGED <<serviceVars, stripeKey, files, output>>

\* l.currentFile.Close(): an error ends the rotation
rotateClose(g) ==
    /\ handlers[g].pc = "Close"
    /\ \E ok \in BOOLEAN :
          IF ok
          THEN /\ files' = [files EXCEPT ![logger.currentFile].open = FALSE]
               /\ handlers' = [handlers EXCEPT ![g].pc = "OpenFile"]
          ELSE /\ files' = files
               /\ handlers' = [handlers EXCEPT ![g].pc = "Unlock", ![g].err = TRUE]
    /\ UNCHANGED <<serviceVars, stripeKey, logger, output>>

\* os.OpenFile of the next file: an error ends the rotation; otherwise the new
\* file is the current file and the output, the tracked size is 0, and the
\* clean-up is started when backups are limited
rotateOpen(g) ==
    /\ handlers[g].pc = "OpenFile"
    /\ \E ok \in BOOLEAN :
          IF ok
          THEN /\ files' = Append(files, [open |-> TRUE, removed |-> FALSE])
               /\ logger' = [logger EXCEPT !.currentFile = Len(files) + 1,
                                           !.out = Len(files) + 1,
                                           !.fileSize = 0]
               /\ handlers' = [handlers EXCEPT ![g].pc = "Unlock"]
          ELSE /\ files' = files
               /\ logger' = logger
               /\ handlers' = [handlers EXCEPT ![g].pc = "Unlock", ![g].err = TRUE]
    /\ UNCHANGED <<serviceVars, stripeKey, output>>

\* the deferred l.mu.Unlock() and the return of print, whose results the
\* caller drops
printUnlock(g) ==
    /\ handlers[g].pc = "Unlock"
    /\ logger' = [logger EXCEPT !.mu = 0]
    /\ handlers' = [handlers EXCEPT
                      ![g] = [IdleHandler EXCEPT !.prints = handlers[g].prints + 1,
                                                 !.key = handlers[g].key]]
    /\ UNCHANGED <<serviceVars, stripeKey, files, output>>

\* cleanupOldLogFiles, started by a rotation: all but the newest MaxBackups
\* files are removed; it takes no mutex and reads only the configuration
cleanupOldLogFiles ==
    /\ ~logger.config.nil /\ logger.config.MaxBackups > 0
    /\ Len(files) > logger.config.MaxBackups
    /\ \E k \in 1..(Len(files) - logger.config.MaxBackups) : ~files[k].removed
    /\ files' = [k \in 1..Len(files) |->
                   IF k <= Len(files) - logger.config.MaxBackups
                   THEN [files[k] EXCEPT !.removed = TRUE] ELSE files[k]]
    /\ UNCHANGED <<serviceVars, stripeKey, logger, handlers, output>>

NextConcurrent ==
    \E g \in Handlers :
        \/ StripeRequest(g)
        \/ \E level \in PrintLevels, n \in EntrySizes : print(g, level, n)
        \/ printLock(g)
        \/ printWrite(g)
        \/ printWritten(g)
        \/ rotateLogFileIfNeeded(g)
        \/ rotateClose(g)
        \/ rotateOpen(g)
        \/ printUnlock(g)
        \/ cleanupOldLogFiles

SpecConcurrent == InitConcurrent /\ [][NextConcurrent]_vars

(* ------------- the adapter over any Payment implementation ------------ *)

\* identifiers a Payment implementation may return
StubIDs == {"", "sub_1"}

\* Payment.CreateSubscription of the interface: any identifier, any status
PaymentCreateSubscription(planID, paymentMethod, id, opStatus) ==
    /\ CanStart
    /\ inv' = Returned([Start("create") EXCEPT !.planID = planID,
                                               !.pm = paymentMethod],
                       id, opStatus)
    /\ UNCHANGED <<customers, attached, defaults, subs, lastCancel, logWorks, firstRun,
                 processVars>>

\* Payment.CancelSubscription of the interface: any status
PaymentCancelSubscription(stripeSubID, opStatus) ==
    /\ CanStart
    /\ inv' = Returned([Start("cancel") EXCEPT !.subID = stripeSubID], "", opStatus)
    /\ UNCHANGED <<customers, attached, defaults, subs, lastCancel, logWorks, firstRun,
                 processVars>>

NextAdapter ==
    \/ \E planID \in PlanIDs, pm \in PaymentMethods, id \in StubIDs,
          st \in StatusValues : PaymentCreateSubscription(planID, pm, id, st)
    \/ \E id \in SubIDArgs, st \in StatusValues : PaymentCancelSubscription(id, st)
    \/ serverCreateReturn
    \/ serverCancelReturn
    \/ AwaitRequest

SpecAdapter == Init /\ [][NextAdapter]_vars

(* ------------------------------- claims -------------------------------- *)

\* the orchestrator has returned (the adapter may not have answered yet)
Completed == inv.pc \in {"return", "done"}

\* the processor endpoints the invocation has called
Endpoints == {inv.calls[k].ep : k \in 1..Len(inv.calls)}

Resolvable == inv.ctx.kind = "int64"
InCatalog == inv.planID \in {1, 2}

\* C1: CreateSubscription checks identity, then plan, then payment method, and
\* the first failing check alone decides the outcome.
C1_ValidationOrder ==
    (inv.op = "create" /\ Completed) =>
        /\ ~Resolvable => inv.outStatus = STATUS_INVALID_USER
        /\ (Resolvable /\ ~InCatalog) => inv.outStatus = STATUS_INVALID_PLAN
        /\ (Resolvable /\ InCatalog /\ inv.pm = "") =>
               inv.outStatus = STATUS_INVALID_PAYMENT_METHOD

C1_Witness ==
    /\ inv.op = "create" /\ inv.pc = "done"
    /\ Resolvable /\ inv.planID = 99 /\ inv.pm = ""
    /\ inv.outStatus = STATUS_INVALID_PLAN

\* C2 as stated: a plan outside the catalog always gives ("", INVALID_PLAN)
\* and no processor call.
C2_Original ==
    (inv.op = "create" /\ Completed /\ ~InCatalog) =>
        /\ inv.outID = ""
        /\ inv.outStatus = STATUS_INVALID_PLAN
        /\ inv.calls = <<>>

\* C2 amended: a plan outside the catalog gives an empty identifier and no
\* processor call; the outcome is INVALID_PLAN when the caller identity is
\* resolvable and INVALID_USER when it is not.
C2_InvalidPlan ==
    (inv.op = "create" /\ Completed /\ ~InCatalog) =>
        /\ inv.outID = ""
        /\ inv.calls = <<>>
        /\ inv.outStatus =
             IF Resolvable THEN STATUS_INVALID_PLAN ELSE STATUS_INVALID_USER

C2_Witness ==
    /\ inv.op = "create" /\ inv.pc = "done"
    /\ Resolvable /\ inv.planID = 99 /\ inv.pm = "pm_test"
    /\ inv.outID = "" /\ inv.outStatus = STATUS_INVALID_PLAN /\ inv.calls = <<>>

CustomerEndpoints ==
    {"customer.Get", "customer.New", "customer.Update", "paymentmethod.Attach"}

\* C3 as stated: an empty payment-method token always gives
\* INVALID_PAYMENT_METHOD and no customer or attachment call.
C3_Original ==
    (inv.op = "create" /\ Completed /\ inv.pm = "") =>
        /\ inv.outStatus = STATUS_INVALID_PAYMENT_METHOD
        /\ Endpoints \cap CustomerEndpoints = {}

\* C3 amended: an empty payment-method token never leads to a customer or
\* attachment call; the outcome is INVALID_PAYMENT_METHOD when the identity is
\* resolvable and the plan is in the catalog, and otherwise the outcome of the
\* earlier failing check.
C3_EmptyToken ==
    (inv.op = "create" /\ Completed /\ inv.pm = "") =>
        /\ Endpoints \cap CustomerEndpoints = {}
        /\ inv.outStatus =
             IF ~Resolvable THEN STATUS_INVALID_USER
             ELSE IF ~InCatalog THEN STATUS_INVALID_PLAN
             ELSE STATUS_INVALID_PAYMENT_METHOD

C3_Witness ==
    /\ inv.op = "create" /\ inv.pc = "done"
    /\ Resolvable /\ inv.planID = 1 /\ inv.pm = ""
    /\ inv.outStatus = STATUS_INVALID_PAYMENT_METHOD /\ inv.calls = <<>>

\* the invocation is the call that follows a finished CancelSubscription on
\* the same identifier
SecondCancel ==
    /\ inv.op = "cancel" /\ inv.pc = "return"
    /\ lastCancel.called /\ lastCancel.subID = inv.subID

\* C4 as stated: two CancelSubscription calls in sequence on one identifier
\* both return OK and the second issues no cancel request.
C4_Original ==
    SecondCancel =>
        /\ lastCancel.status = STATUS_OK
        /\ inv.outStatus = STATUS_OK
        /\ "subscription.Cancel" \notin Endpoints

\* C4 amended: after a CancelSubscription call on an identifier returned OK, the
\* following call on it issues no cancel request; it returns OK when its fetch
\* succeeds (the fetched status is CANCELED) and INTERNAL_ERROR when it fails.
C4_CancelIdempotent ==
    (SecondCancel /\ lastCancel.status = STATUS_OK) =>
        /\ Endpoints = {"subscription.Get"} /\ Len(inv.calls) = 1
        /\ inv.calls[1].ok =>
              inv.fetched = "canceled" /\ inv.outStatus = STATUS_OK
        /\ ~inv.calls[1].ok => inv.outStatus = STATUS_INTERNAL_ERROR

C4_Witness ==
    /\ SecondCancel /\ lastCancel.status = STATUS_OK
    /\ inv.subID = "42" /\ inv.calls[1].ok /\ inv.outStatus = STATUS_OK

\* the invocation issued a cancel request that the processor accepted
CancelAccepted ==
    /\ inv.op = "cancel" /\ Completed
    /\ \E k \in 1..Len(inv.calls) :
          inv.calls[k].ep = "subscription.Cancel" /\ inv.calls[k].ok

\* C5: after an accepted cancel request the outcome is OK exactly when the
\* returned status is CANCELED, and INTERNAL_ERROR otherwise.
C5_CancelVerified ==
    CancelAccepted =>
        /\ inv.outStatus = STATUS_OK <=> inv.cancelAnswer = "canceled"
        /\ inv.cancelAnswer # "canceled" => inv.outStatus = STATUS_INTERNAL_ERROR

C5_Witness ==
    /\ CancelAccepted /\ inv.pc = "done"
    /\ inv.cancelAnswer = "active" /\ inv.outStatus = STATUS_INTERNAL_ERROR

\* C6: CancelSubscription("") returns INTERNAL_ERROR without a processor call.
C6_CancelEmptyID ==
    (inv.op = "cancel" /\ Completed /\ inv.subID = "") =>
        inv.outStatus = STATUS_INTERNAL_ERROR /\ inv.calls = <<>>

C6_Witness ==
    /\ inv.op = "cancel" /\ inv.pc = "done" /\ inv.subID = ""
    /\ inv.outStatus = STATUS_INTERNAL_ERROR /\ inv.calls = <<>>

\* the fetch of CancelSubscription failed
CancelFetchFailed ==
    /\ inv.op = "cancel" /\ Completed
    /\ Len(inv.calls) >= 1 /\ ~inv.calls[1].ok

\* C7: a failed fetch ends CancelSubscription with INTERNAL_ERROR, no cancel
\* request, and the processor's state as it was when the call began.
C7_CancelFetchFails ==
    CancelFetchFailed =>
        /\ inv.outStatus = STATUS_INTERNAL_ERROR
        /\ Len(inv.calls) = 1 /\ inv.calls[1].ep = "subscription.Get"
        /\ subs = inv.pre.subs
        /\ customers = inv.pre.customers
        /\ attached = inv.pre.attached /\ defaults = inv.pre.defaults

C7_Witness ==
    /\ CancelFetchFailed /\ inv.pc = "done" /\ inv.subID = "42"
    /\ StatusOf("42") = "active" /\ inv.outStatus = STATUS_INTERNAL_ERROR

\* GetSubscription built a record from a fetched subscription
RecordBuilt == inv.op = "get" /\ Completed /\ inv.record # EmptySubscription

\* C8: the five known processor statuses map to the lifecycle status of the
\* same name and every other value maps to UNSPECIFIED.
C8_StatusMapping ==
    RecordBuilt =>
        LET st == inv.fetched
            m == inv.record.Status
        IN  /\ st = "active" => m = "SUBSCRIPTION_STATUS_ACTIVE"
            /\ st = "canceled" => m = "SUBSCRIPTION_STATUS_CANCELED"
            /\ st = "incomplete_expired" =>
                   m = "SUBSCRIPTION_STATUS_INCOMPLETE_EXPIRED"
            /\ st = "unpaid" => m = "SUBSCRIPTION_STATUS_UNPAID"
            /\ st = "trialing" => m = "SUBSCRIPTION_STATUS_TRIALING"
            /\ st \notin {"active", "canceled", "incomplete_expired", "unpaid",
                          "trialing"} => m = "SUBSCRIPTION_STATUS_UNSPECIFIED"

C8_Witness ==
    /\ RecordBuilt /\ inv.pc = "done"
    /\ inv.fetched = "future_status"
    /\ inv.record.Status = "SUBSCRIPTION_STATUS_UNSPECIFIED"

\* C9: the create and cancel handlers answer with a response exactly when the
\* outcome is OK, with InvalidArgument and no response for the three INVALID_*
\* outcomes, and with Internal and no response for every other value.
C9_AdapterMapping ==
    (inv.pc = "done" /\ inv.op \in {"create", "cancel"}) =>
        /\ inv.rpcResp # NoResponse <=> inv.outStatus = STATUS_OK
        /\ inv.outStatus = STATUS_OK =>
              /\ inv.rpcCode = "OK"
              /\ inv.rpcResp.Status = STATUS_OK
              /\ inv.op = "create" => inv.rpcResp.SubStripeId = inv.outID
        /\ inv.outStatus \in {STATUS_INVALID_USER, STATUS_INVALID_PLAN,
                              STATUS_INVALID_PAYMENT_METHOD} =>
              inv.rpcCode = "InvalidArgument"
        /\ inv.outStatus \notin {STATUS_OK, STATUS_INVALID_USER, STATUS_INVALID_PLAN,
                                 STATUS_INVALID_PAYMENT_METHOD} =>
              inv.rpcCode = "Internal"

C9_Witness ==
    /\ inv.pc = "done" /\ inv.op = "cancel"
    /\ inv.outStatus = "STATUS_UNSPECIFIED"
    /\ inv.rpcCode = "Internal" /\ inv.rpcResp = NoResponse

\* the RPC status the outcome table gives
CodeOf(opStatus) ==
    CASE opStatus = STATUS_OK -> "OK"
      [] opStatus \in {STATUS_INVALID_USER, STATUS_INVALID_PLAN,
                       STATUS_INVALID_PAYMENT_METHOD} -> "InvalidArgument"
      [] OTHER -> "Internal"

\* C10 as stated: create, cancel and get each return one member of the outcome
\* set, and that outcome alone determines the RPC status.
C10_Original ==
    (inv.pc = "done" /\ inv.op \in {"create", "cancel", "get"}) =>
        inv.outStatus \in Outcomes /\ inv.rpcCode = CodeOf(inv.outStatus)

\* C10 amended: create and cancel each return one member of the outcome set
\* and that outcome alone determines the RPC status; get returns a record and
\* no outcome, and its RPC status is decided by whether the record's
\* identifier is a base-10 integer.
C10_OutcomeChannel ==
    inv.pc = "done" =>
        /\ inv.op \in {"create", "cancel"} =>
              inv.outStatus \in Outcomes /\ inv.rpcCode = CodeOf(inv.outStatus)
        /\ inv.op = "get" =>
              /\ inv.outStatus \notin Outcomes
              \* "42" is the one identifier of the model that is a base-10 integer
              /\ inv.rpcCode = IF inv.record.ID \in {"42"} THEN "OK" ELSE "Unknown"

C10_Witness ==
    /\ inv.pc = "done" /\ inv.op = "get"
    /\ inv.record.ID = "sub_1" /\ inv.rpcCode = "Unknown"

\* the invocation is a CreateSubscription by an identity for which an earlier
\* invocation created a customer
CustomerCreatedEarlier ==
    /\ inv.op = "create"
    /\ \E c \in inv.pre.customers : c.created /\ c.user_id = inv.userIDStr

\* C11: customer resolution is idempotent by identity: once an invocation has
\* created a customer for an identity, a later invocation by that identity
\* issues no customer-creation request, and the service never creates two
\* customers for one identity.
C11_CustomerReuse ==
    /\ CustomerCreatedEarlier => "customer.New" \notin Endpoints
    /\ \A c1, c2 \in CreatedCustomers : c1.user_id = c2.user_id => c1 = c2

\* the invocation has issued a request to endpoint ep that was answered ok
Answered(ep, ok) ==
    \E k \in 1..Len(inv.calls) : inv.calls[k].ep = ep /\ inv.calls[k].ok = ok

LastCall == inv.calls[Len(inv.calls)]

\* C12: when the payment-method attachment fails, CreateSubscription returns
\* no identifier and INVALID_PAYMENT_METHOD, the attachment is its last
\* processor request (no customer update, no subscription creation), and a
\* customer created earlier in the invocation still exists.
C12_AttachFailure ==
    (inv.op = "create" /\ Answered("paymentmethod.Attach", FALSE)) =>
        /\ Completed
        /\ inv.outID = "" /\ inv.outStatus = STATUS_INVALID_PAYMENT_METHOD
        /\ LastCall.ep = "paymentmethod.Attach"
        /\ "customer.Update" \notin Endpoints
        /\ "subscription.New" \notin Endpoints
        /\ Answered("customer.New", TRUE) =>
              [id |-> inv.customerID, user_id |-> inv.userIDStr,
               created |-> TRUE] \in customers \ inv.pre.customers

C12_Witness ==
    /\ inv.op = "create" /\ inv.pc = "done"
    /\ Answered("customer.New", TRUE)
    /\ Answered("paymentmethod.Attach", FALSE)
    /\ inv.outStatus = STATUS_INVALID_PAYMENT_METHOD
    /\ customers # inv.pre.customers

\* C13: a failed default-payment-method update does not end CreateSubscription:
\* the subscription-creation request is the next request whatever the update
\* answered, and the outcome is decided by the creation request alone.
C13_SetDefaultIgnored ==
    (inv.op = "create" /\ "customer.Update" \in Endpoints) =>
        /\ LastCall.ep = "customer.Update" => inv.pc = "subscription.New"
        /\ inv.pc # "subscription.New" => LastCall.ep = "subscription.New"
        /\ Completed =>
              /\ inv.outStatus = IF LastCall.ok THEN STATUS_OK
                                 ELSE STATUS_INTERNAL_ERROR
              /\ inv.outID # "" <=> LastCall.ok

C13_Witness ==
    /\ inv.op = "create" /\ inv.pc = "done"
    /\ Answered("customer.Update", FALSE)
    /\ Answered("subscription.New", TRUE)
    /\ inv.outStatus = STATUS_OK /\ inv.outID = "sub_1"

\* C14: CreateSubscription returns OK exactly when its subscription-creation
\* request succeeded, and then returns the identifier the processor assigned;
\* a failed creation request gives INTERNAL_ERROR, and every outcome other
\* than OK comes with an empty identifier.
C14_OkIffCreated ==
    (inv.op = "create" /\ Completed) =>
        /\ inv.outStatus = STATUS_OK <=> Answered("subscription.New", TRUE)
        /\ inv.outStatus = STATUS_OK =>
              /\ inv.outID \in DOMAIN subs \ DOMAIN inv.pre.subs
              /\ subs[inv.outID].created
        /\ Answered("subscription.New", FALSE) =>
              inv.outStatus = STATUS_INTERNAL_ERROR
        /\ inv.outStatus # STATUS_OK => inv.outID = ""

C14_Witness ==
    /\ inv.op = "create" /\ inv.pc = "return"
    /\ Answered("subscription.New", TRUE)
    /\ inv.outStatus = STATUS_OK
    /\ inv.outID \in DOMAIN subs \ DOMAIN inv.pre.subs

CreateEndpoints ==
    {"customer.Get", "customer.New", "paymentmethod.Attach", "customer.Update",
     "subscription.New"}

\* C15: CreateSubscription never compensates: it issues no request other than
\* lookup, customer creation, attachment, update and subscription creation,
\* nothing the processor held at its start is removed, and a customer it
\* created and a payment method it attached remain after a later failure.
C15_NoCompensation ==
    inv.op = "create" =>
        /\ Endpoints \subseteq CreateEndpoints
        /\ inv.pre.customers \subseteq customers
        /\ inv.pre.attached \subseteq attached
        /\ \A id \in DOMAIN inv.pre.subs :
              id \in DOMAIN subs /\ subs[id] = inv.pre.subs[id]
        /\ Answered("customer.New", TRUE) =>
              [id |-> inv.customerID, user_id |-> inv.userIDStr,
               created |-> TRUE] \in customers
        /\ Answered("paymentmethod.Attach", TRUE) =>
              <<inv.customerID, inv.pm>> \in attached

C15_Witness ==
    /\ inv.op = "create" /\ inv.pc = "done"
    /\ inv.outStatus = STATUS_INTERNAL_ERROR
    /\ Answered("customer.New", TRUE)
    /\ Answered("paymentmethod.Attach", TRUE)
    /\ Answered("subscription.New", FALSE)
    /\ \E c \in customers \ inv.pre.customers : c.id = inv.customerID
    /\ <<inv.customerID, inv.pm>> \in attached \ inv.pre.attached

\* C16: GetSubscription with an empty identifier returns the zero record and
\* issues no processor request.
C16_GetEmptyID ==
    (inv.op = "get" /\ inv.subID = "") =>
        /\ Completed
        /\ inv.record = EmptySubscription
        /\ inv.calls = <<>>

C16_Witness ==
    /\ inv.op = "get" /\ inv.pc = "return" /\ inv.subID = ""
    /\ inv.record = EmptySubscription /\ inv.calls = <<>>

\* the fetch of GetSubscription succeeded and the subscription has an item
FetchedWithItems ==
    Answered("subscription.Get", TRUE) /\ subs[inv.subID].items

\* C17: GetSubscription returns the zero record when the fetch fails or the
\* fetched subscription has no items; otherwise the record's identifier is the
\* processor's subscription identifier, its plan identifier is the price of
\* the first item, and its status is the mapped processor status.
C17_GetRecord ==
    (inv.op = "get" /\ Completed /\ inv.subID # "") =>
        IF FetchedWithItems
        THEN /\ inv.record.ID = inv.subID
             /\ inv.record.PlanID = subs[inv.subID].price
             /\ inv.record.Status =
                    getPaymentStatusFromStripe(subs[inv.subID].status)
        ELSE inv.record = EmptySubscription

C17_Witness ==
    /\ inv.op = "get" /\ inv.pc = "done"
    /\ Answered("subscription.Get", TRUE)
    /\ ~subs[inv.subID].items
    /\ inv.record = EmptySubscription

ProcessorUntouched ==
    /\ inv.calls = <<>>
    /\ customers = inv.pre.customers /\ attached = inv.pre.attached
    /\ defaults = inv.pre.defaults /\ subs = inv.pre.subs

\* C19: a webhook whose signature is not the one the shared secret gives for
\* its payload returns an error and runs no case of the event-type switch,
\* the default case included.
C19_BadSignature ==
    (inv.op = "webhook"
       /\ inv.hook.signature # Sign(inv.hook.payload, inv.hook.secret)) =>
        /\ inv.hookErr
        /\ inv.handler = "none"
        /\ \A k \in 1..Len(inv.logs) :
              inv.logs[k].message \in {"Processing Stripe webhook event",
                                       "Failed to verify webhook signature"}

C19_Witness ==
    /\ inv.op = "webhook" /\ inv.pc = "done"
    /\ inv.hook.payload.type = "customer.subscription.deleted"
    /\ inv.hook.signature = Sign(inv.hook.payload, "whsec_other")
    /\ inv.hookErr /\ inv.handler = "none"

\* the webhook carried an event signed with the shared secret
VerifiedEvent ==
    /\ inv.op = "webhook"
    /\ inv.hook.payload.json
    /\ inv.hook.signature = Sign(inv.hook.payload, inv.hook.secret)

\* C20: for every verified webhook event, of a recognized type or not,
\* HandleStripeWebhook returns no error, issues no processor request and
\* leaves the processor's and the service's state as it was; what it does is
\* log: the entry message and the message of the case that ran.
C20_WebhookFrame ==
    VerifiedEvent =>
        /\ ~inv.hookErr
        /\ ProcessorUntouched
        /\ inv.handler = IF inv.hook.payload.type \in RecognizedEvents
                         THEN inv.hook.payload.type ELSE "default"
        /\ Len(inv.logs) = 2
        /\ inv.outID = "" /\ inv.outStatus = "" /\ inv.record = EmptySubscription

C20_Witness ==
    /\ VerifiedEvent /\ inv.pc = "done"
    /\ inv.hook.payload.type = "invoice.paid"
    /\ ~inv.hookErr /\ inv.handler = "default"
    /\ customers # {} /\ customers = inv.pre.customers

\* the string is an optional sign followed by one or more decimal digits
IsBase10Integer(s) ==
    /\ Len(s) > 0
    /\ LET signed == SubSeq(s, 1, 1) \in {"+", "-"}
           from == IF signed THEN 2 ELSE 1
       IN  /\ from <= Len(s)
           /\ \A k \in from..Len(s) :
                 SubSeq(s, k, k) \in {Digits[d] : d \in 1..10}

\* C21: the adapter's GetSubscription returns an error and no response
\* whenever the identifier of the record the orchestrator returned is not a
\* base-10 integer: a processor-assigned identifier such as "sub_1", and the
\* zero record returned for an empty identifier, a failed fetch or a
\* subscription without items.
C21_GetParseFailure ==
    (inv.op = "get" /\ inv.pc = "done") =>
        /\ ~IsBase10Integer(inv.record.ID) =>
              inv.rpcCode # "OK" /\ inv.rpcResp = NoResponse
        /\ inv.record = EmptySubscription => inv.rpcResp = NoResponse
        /\ inv.record.ID \in {"", "sub_1", "sub_2"} => inv.rpcResp = NoResponse

C21_Witness ==
    /\ inv.op = "get" /\ inv.pc = "done"
    /\ Answered("subscription.Get", TRUE)
    /\ inv.record = EmptySubscription
    /\ inv.rpcCode = "Unknown" /\ inv.rpcResp = NoResponse

\* C22: no processor request is repeated: within one invocation each endpoint
\* is called at most once, so CreateSubscription issues at most five requests,
\* CancelSubscription at most two and GetSubscription at most one, whatever
\* the processor answers.
C22_NoRetry ==
    /\ \A j, k \in 1..Len(inv.calls) :
          inv.calls[j].ep = inv.calls[k].ep => j = k
    /\ inv.op = "create" =>
          Len(inv.calls) <= 5 /\ Endpoints \subseteq CreateEndpoints
    /\ inv.op = "cancel" =>
          /\ Len(inv.calls) <= 2
          /\ Endpoints \subseteq {"subscription.Get", "subscription.Cancel"}
    /\ inv.op = "get" =>
          Len(inv.calls) <= 1 /\ Endpoints \subseteq {"subscription.Get"}

C22_Witness ==
    /\ inv.op = "create" /\ inv.pc = "done"
    /\ Len(inv.calls) = 5
    /\ Answered("customer.Get", FALSE)
    /\ Answered("customer.Update", FALSE)
    /\ Answered("subscription.New", FALSE)

\* the price the catalog gives for a plan
CatalogPrice(planID) ==
    IF planID = 1 THEN "price_basic_123"
    ELSE IF planID = 2 THEN "price_pro_456" ELSE ""

\* C25: the catalog maps plan 1 to "price_basic_123", plan 2 to
\* "price_pro_456" and nothing else; CreateSubscription has the price before
\* its first processor request, and its subscription-creation request carries
\* the catalog's price for the requested plan.
C25_CatalogPrice ==
    /\ \A p \in PlanIDs : mapPlanIDToStripePrice(p) = CatalogPrice(p)
    /\ (inv.op = "create" /\ (inv.pc = "customer.Get" \/ inv.calls # <<>>)) =>
          /\ InCatalog
          /\ inv.stripePrice = CatalogPrice(inv.planID)
          /\ \A k \in 1..Len(inv.calls) :
                inv.calls[k].ep = "subscription.New" =>
                    inv.calls[k].param = CatalogPrice(inv.planID)
    /\ \A id \in CreatedSubs \ DOMAIN inv.pre.subs :
          inv.op = "create" => subs[id].price = CatalogPrice(inv.planID)

C25_Witness ==
    /\ inv.op = "create" /\ inv.pc = "done" /\ inv.planID = 2
    /\ inv.outStatus = STATUS_OK
    /\ LastCall = Call("subscription.New", inv.customerID, "price_pro_456", TRUE)
    /\ subs[inv.outID].price = "price_pro_456"

\* C26: CreateSubscription returns INVALID_USER with an empty identifier and
\* issues no processor request whenever the context holds no value under the
\* identity key or a value that is not an int64; any int64 value is the
\* caller identity, and is looked up in its decimal form.
C26_IdentityFromContext ==
    inv.op = "create" =>
        /\ inv.ctx.kind # "int64" =>
              /\ Completed
              /\ inv.outStatus = STATUS_INVALID_USER /\ inv.outID = ""
              /\ inv.calls = <<>>
        /\ inv.ctx.kind = "int64" =>
              /\ inv.outStatus # STATUS_INVALID_USER
              /\ inv.calls # <<>> =>
                    /\ inv.userIDStr = "7" /\ inv.ctx.val = 7
                    /\ inv.calls[1] \in
                          {Call("customer.Get", "7", "", ok) : ok \in BOOLEAN}

C26_Witness ==
    /\ inv.op = "create" /\ inv.pc = "done"
    /\ inv.ctx = [kind |-> "int", val |-> 7]
    /\ inv.planID = 1 /\ inv.pm = "pm_test"
    /\ inv.outStatus = STATUS_INVALID_USER /\ inv.calls = <<>>

\* the position of an endpoint in the order of CreateSubscription
Rank(ep) ==
    CASE ep = "customer.Get" -> 1
      [] ep = "customer.New" -> 2
      [] ep = "paymentmethod.Attach" -> 3
      [] ep = "customer.Update" -> 4
      [] ep = "subscription.New" -> 5
      [] OTHER -> 0

\* C27: the requests of a CreateSubscription invocation come in the order
\* lookup, customer creation (only after a failed lookup), attachment, update,
\* subscription creation; the subscription is created only after the
\* attachment to the same customer succeeded and the update was issued, and
\* the attachment only after a customer identifier was resolved.
C27_CallOrder ==
    inv.op = "create" =>
        /\ \A j, k \in 1..Len(inv.calls) :
              j < k => Rank(inv.calls[j].ep) < Rank(inv.calls[k].ep)
        /\ inv.calls # <<>> => inv.calls[1].ep = "customer.Get"
        /\ "customer.New" \in Endpoints => Answered("customer.Get", FALSE)
        /\ "paymentmethod.Attach" \in Endpoints =>
              /\ inv.customerID # ""
              /\ Answered("customer.Get", TRUE) \/ Answered("customer.New", TRUE)
              /\ \E c \in customers : c.id = inv.customerID
        /\ "customer.Update" \in Endpoints =>
              Call("paymentmethod.Attach", inv.customerID, inv.pm, TRUE)
                  \in {inv.calls[k] : k \in 1..Len(inv.calls)}
        /\ "subscription.New" \in Endpoints =>
              /\ Call("paymentmethod.Attach", inv.customerID, inv.pm, TRUE)
                    \in {inv.calls[k] : k \in 1..Len(inv.calls)}
              /\ "customer.Update" \in Endpoints
              /\ LastCall.ep = "subscription.New"
              /\ LastCall.target = inv.customerID

C27_Witness ==
    /\ inv.op = "create" /\ inv.pc = "return"
    /\ Len(inv.calls) = 5
    /\ inv.calls[2] = Call("customer.New", "", "7", TRUE)
    /\ inv.calls[3] = Call("paymentmethod.Attach", "cus_1", "pm_test", TRUE)
    /\ inv.calls[5].ep = "subscription.New" /\ inv.calls[5].target = "cus_1"

\* C28: customer resolution issues a customer-creation request whenever the
\* lookup by the decimal identity fails, whether or not a customer with that
\* identifier exists; when the creation fails too, CreateSubscription returns
\* INTERNAL_ERROR with an empty identifier and issues nothing further.
C28_CreateOnLookupError ==
    (inv.op = "create" /\ Answered("customer.Get", FALSE)) =>
        /\ inv.calls[1] = Call("customer.Get", inv.userIDStr, "", FALSE)
        /\ Len(inv.calls) = 1 => inv.pc = "customer.New"
        /\ Len(inv.calls) > 1 =>
              inv.calls[2] \in
                  {Call("customer.New", "", inv.userIDStr, ok) : ok \in BOOLEAN}
        /\ Answered("customer.New", FALSE) =>
              /\ Completed
              /\ inv.outStatus = STATUS_INTERNAL_ERROR /\ inv.outID = ""
              /\ Len(inv.calls) = 2
              /\ customers = inv.pre.customers

C28_Witness ==
    /\ inv.op = "create" /\ inv.pc = "done"
    /\ "7" \in {c.id : c \in inv.pre.customers}
    /\ inv.calls = <<Call("customer.Get", "7", "", FALSE),
                     Call("customer.New", "", "7", FALSE)>>
    /\ inv.outStatus = STATUS_INTERNAL_ERROR

\* the invocation is the second of two runs with the same arguments, from the
\* same processor state, one with a working log output and one with a failing
\* one
SecondRunDone ==
    /\ inv.pc = "done" /\ firstRun.op = inv.op
    /\ firstRun.logWorks # logWorks
    /\ firstRun.pre = inv.pre

\* the processor answered the two runs alike: request by request as far as
\* both runs issued one, with the same clock
SameResponses ==
    /\ \A k \in 1..Len(inv.calls) :
          k <= Len(firstRun.calls) => inv.calls[k].ok = firstRun.calls[k].ok
    /\ (inv.cancelAnswer # "" /\ firstRun.cancelAnswer # "") =>
          inv.cancelAnswer = firstRun.cancelAnswer
    /\ (inv.now # 0 /\ firstRun.now # 0) => inv.now = firstRun.now

\* C24: what the orchestrator does is independent of the log output: two runs
\* with the same arguments and the same processor answers, one in which every
\* log write fails and one in which every log write succeeds, issue the same
\* processor requests and return the same outcome.
C24_LogIndependence ==
    (SecondRunDone /\ SameResponses) =>
        /\ inv.calls = firstRun.calls
        /\ inv.outID = firstRun.outID /\ inv.outStatus = firstRun.outStatus
        /\ inv.record = firstRun.record
        /\ inv.hookErr = firstRun.hookErr
        /\ inv.rpcCode = firstRun.rpcCode /\ inv.rpcResp = firstRun.rpcResp
        /\ \A k \in 1..Len(inv.logs) : inv.logs[k].written = logWorks

C24_Witness ==
    /\ SecondRunDone /\ SameResponses
    /\ inv.op = "create" /\ firstRun.logWorks /\ ~logWorks
    /\ Len(inv.calls) = 5 /\ inv.outStatus = STATUS_OK
    /\ Len(inv.logs) > 5
    /\ \A k \in 1..Len(inv.logs) : ~inv.logs[k].written

(* ------------- claims about the logger and the shared state ------------ *)

\* the positions of print between l.mu.Lock() and the deferred Unlock
CriticalPcs ==
    {"Write", "Writing", "rotateLogFileIfNeeded", "Close", "OpenFile", "Unlock"}

\* the entries in the output are whole: every first part is followed by the
\* last part of the same entry in the same file
EntriesWhole ==
    /\ Len(output) % 2 = 1 =>
          \E g \in Handlers : /\ handlers[g].pc = "Writing"
                              /\ output[Len(output)].g = g
    /\ \A k \in 1..Len(output) :
          IF k % 2 = 1
          THEN output[k].part = "first"
          ELSE /\ output[k].part = "last"
               /\ output[k].g = output[k - 1].g
               /\ output[k].file = output[k - 1].file

\* C29: log writes are mutually exclusive: a handler that writes to the
\* output or reads or updates the current file, the output writer or the
\* file size holds the logger's mutex, so at most one handler does so at a
\* time and the entries in the output are never intermingled
C29_LogMutex ==
    /\ \A g \in Handlers : handlers[g].pc \in CriticalPcs => logger.mu = g
    /\ logger.mu # 0 => handlers[logger.mu].pc \in CriticalPcs
    /\ EntriesWhole

C29_Witness ==
    \E g1, g2 \in Handlers :
        /\ handlers[g1].pc = "Writing"
        /\ handlers[g2].pc = "Lock"
        /\ Len(output) = 1

\* a print call of handler g has written its entry and is about to return
\* with no file operation failed
PrintSucceeded(g) ==
    /\ handlers[g].pc = "Unlock"
    /\ ~handlers[g].err
    /\ ~logger.config.nil

\* the statement of C30 without a condition on MaxSize
C30_Original ==
    \A g \in Handlers : PrintSucceeded(g) => logger.fileSize <= SizeLimit

\* C30: for a file logger with MaxSize >= 0, after every print call that wrote
\* its entry with no file operation failing, the tracked size is at most
\* MaxSize*1024*1024 bytes and the open current file is the output; when the
\* tracked size was reset to 0 a new file is the current file and the file
\* before it is closed; a logger without a file configuration has no file and
\* never rotates
C30_RotationBySize ==
    /\ \A g \in Handlers :
          PrintSucceeded(g) /\ logger.config.MaxSize >= 0 =>
             /\ logger.fileSize <= SizeLimit
             /\ logger.out = logger.currentFile
             /\ files[logger.currentFile].open
    /\ \A g \in Handlers :
          PrintSucceeded(g) /\ logger.fileSize = 0 =>
             /\ logger.currentFile = Len(files)
             /\ Len(files) > 1
             /\ ~files[Len(files) - 1].open
    /\ logger.config.nil =>
          /\ files = <<>>
          /\ logger.out = 0 /\ logger.currentFile = 0 /\ logger.fileSize = 0

C30_Witness ==
    \E g \in Handlers :
        /\ PrintSucceeded(g)
        /\ logger.config.MaxSize = 1
        /\ Len(output) = 4
        /\ output[3].file = 1
        /\ logger.fileSize = 0
        /\ logger.currentFile = 2

\* the statement of C23 taken literally: no step of a handler changes the
\* credential or the logger
C23_Original == [][UNCHANGED <<stripeKey, logger>>]_vars

\* C23: concurrent invocations share the credential and the logger; after
\* start-up no step of any handler changes the credential, the logger's level
\* or its configuration, and the rest of the logger changes only in a step of
\* the handler that takes or holds its mutex
C23_SharedState ==
    [][/\ stripeKey' = stripeKey
       /\ logger'.minLevel = logger.minLevel
       /\ logger'.config = logger.config
       /\ logger' # logger =>
             \E g \in Handlers :
                /\ handlers'[g] # handlers[g]
                /\ \/ logger.mu = 0 /\ logger'.mu = g
                   \/ logger.mu = g /\ handlers[g].pc \in CriticalPcs]_vars

C23_Witness ==
    \E g1, g2 \in Handlers :
        /\ g1 # g2
        /\ handlers[g1].key = "key"
        /\ handlers[g2].key = "key"
        /\ handlers[g2].pc = "Unlock"
        /\ logger.currentFile = 2

(* ------------- claims about single invocations, continued -------------- *)

\* the processor reported the subscription as CANCELED to this invocation, in
\* the answer to its fetch or in the answer to its cancel request
ReportedCanceled ==
    \/ Answered("subscription.Get", TRUE) /\ inv.fetched = "canceled"
    \/ Answered("subscription.Cancel", TRUE) /\ inv.cancelAnswer = "canceled"

\* C31: CancelSubscription returns OK only if the processor reported the
\* subscription as CANCELED during the invocation, in the fetch answer or in
\* the cancel answer; on every other path it returns INTERNAL_ERROR; it never
\* returns INVALID_USER, INVALID_PLAN or INVALID_PAYMENT_METHOD
C31_CancelOutcomes ==
    (inv.op = "cancel" /\ Completed) =>
        /\ inv.outStatus = STATUS_OK => ReportedCanceled
        /\ ~ReportedCanceled => inv.outStatus = STATUS_INTERNAL_ERROR
        /\ inv.outStatus \in {STATUS_OK, STATUS_INTERNAL_ERROR}

C31_Witness ==
    /\ inv.op = "cancel" /\ inv.pc = "done"
    /\ inv.fetched = "past_due" /\ inv.cancelAnswer = "canceled"
    /\ inv.outStatus = STATUS_OK

\* C33: GetSubscription is read-only toward the processor: it issues at most
\* one request, a subscription fetch, and the processor's customers,
\* attachments, defaults and subscriptions stay as they were when it began,
\* whatever it returns
C33_GetReadOnly ==
    inv.op = "get" =>
        /\ Len(inv.calls) <= 1
        /\ Endpoints \subseteq {"subscription.Get"}
        /\ customers = inv.pre.customers /\ attached = inv.pre.attached
        /\ defaults = inv.pre.defaults /\ subs = inv.pre.subs

C33_Witness ==
    /\ inv.op = "get" /\ inv.pc = "done"
    /\ Len(inv.calls) = 1 /\ inv.calls[1].ok
    /\ inv.fetched = "past_due" /\ inv.record # EmptySubscription
    /\ subs = inv.pre.subs /\ subs # <<>>

\* the identifiers customer resolution returned in this invocation: that of
\* the customer the lookup answered with, or that of the customer the
\* processor created for it
ResolvedCustomers ==
    {inv.calls[k].target : k \in {j \in 1..Len(inv.calls) :
                                    /\ inv.calls[j].ep = "customer.Get"
                                    /\ inv.calls[j].ok}}
    \cup
    {c.id : c \in {d \in customers \ inv.pre.customers :
                     Answered("customer.New", TRUE)}}

\* the requests of CreateSubscription that name a customer
CustomerTargets ==
    {inv.calls[k].target : k \in {j \in 1..Len(inv.calls) :
                                    inv.calls[j].ep \in {"paymentmethod.Attach",
                                                         "customer.Update",
                                                         "subscription.New"}}}

\* C32: in one CreateSubscription invocation the attachment, the customer
\* update and the subscription creation all name one customer, the one that
\* customer resolution returned in that invocation, and never a customer that
\* only another invocation resolved
C32_SameCustomer ==
    inv.op = "create" =>
        /\ Cardinality(ResolvedCustomers) <= 1
        /\ CustomerTargets \subseteq ResolvedCustomers
        /\ inv.customerID # "" => ResolvedCustomers = {inv.customerID}

C32_Witness ==
    /\ inv.op = "create" /\ inv.pc = "done" /\ inv.outStatus = STATUS_OK
    /\ Answered("customer.New", TRUE)
    /\ ResolvedCustomers = {"cus_1"}
    /\ CustomerTargets = {"cus_1"}
    /\ Len(inv.calls) = 5
    /\ \E c \in inv.pre.customers : c.id = "7"

\* an invocation of one of the three operations has not returned yet
Running == inv.op \in {"create", "cancel", "get"} /\ ~Completed

\* the result an invocation returned: one outcome for create and cancel, a
\* record for get
HasResult ==
    /\ inv.op \in {"create", "cancel"} => inv.outStatus \in Outcomes
    /\ inv.op = "get" =>
          \/ inv.record = EmptySubscription
          \/ inv.record.ID = inv.subID

\* C34: when every processor call returns, every CreateSubscription and
\* CancelSubscription invocation eventually returns one outcome and every
\* GetSubscription invocation eventually returns a record, whatever the
\* processor answers
C34_Terminates ==
    /\ Running ~> Completed
    /\ [](Completed /\ inv.op # "webhook" => HasResult)

C34_Witness ==
    /\ inv.op = "create" /\ inv.pc = "done"
    /\ Len(inv.calls) = 5
    /\ Answered("customer.Get", FALSE)
    /\ Answered("customer.Update", FALSE)
    /\ inv.outStatus = STATUS_OK

====
